---------------------------- MODULE Spec2Model ----------------------------
(***************************************************************************)
(* Election Visualization Dashboard (main.py).                             *)
(*                                                                         *)
(* The script loads two files, cleans the results table, precomputes the   *)
(* aggregate tables at import time and then serves six render callbacks.   *)
(* The model follows the script top to bottom: one action per block of     *)
(* module-level statements (pc walks through them), then one action per    *)
(* callback.                                                               *)
(*                                                                         *)
(* Data representation                                                     *)
(*   - a text cell is a tuple of one-character strings; a missing cell     *)
(*     (pandas NaN in an object column) is the tuple NA;                   *)
(*   - a float is a record [k, n, d]: an exact fraction n/d ("num"), an    *)
(*     infinity ("inf", n = sign), NaN ("nan"); None is [k |-> "none"].    *)
(*     Binary rounding of float64 is not modelled;                         *)
(*   - a DataFrame is a sequence of row records; the field idx is the      *)
(*     row's index label.                                                  *)
(* pandas semantics are those of the 2.x line with object-dtype text       *)
(* columns (astype(str) turns a missing cell into the text "nan").         *)
(***************************************************************************)
EXTENDS Integers, Sequences, FiniteSets, TLC

----------------------------------------------------------------------------
(* Characters and text                                                     *)

\* The characters the inputs use, in code point order.
Chars ==
  <<" ", "%", "(", ")", ",", "-", ".",
    "0", "1", "2", "3", "4", "5", "6", "7", "8", "9",
    "A", "B", "C", "D", "E", "F", "G", "H", "I", "J", "K", "L", "M",
    "N", "O", "P", "Q", "R", "S", "T", "U", "V", "W", "X", "Y", "Z",
    "a", "b", "c", "d", "e", "f", "g", "h", "i", "j", "k", "l", "m",
    "n", "o", "p", "q", "r", "s", "t", "u", "v", "w", "x", "y", "z">>

CharSet == {Chars[i] : i \in 1..Len(Chars)}

Ord == [c \in CharSet |-> CHOOSE i \in 1..Len(Chars) : Chars[i] = c]

Digits == {"0", "1", "2", "3", "4", "5", "6", "7", "8", "9"}

FirstUpper == Ord["A"]
FirstLower == Ord["a"]
CaseGap == FirstLower - FirstUpper

IsUpper(c) == Ord[c] >= FirstUpper /\ Ord[c] < FirstLower
IsLower(c) == Ord[c] >= FirstLower
IsCased(c) == IsUpper(c) \/ IsLower(c)
ToUpper(c) == IF IsLower(c) THEN Chars[Ord[c] - CaseGap] ELSE c
ToLower(c) == IF IsUpper(c) THEN Chars[Ord[c] + CaseGap] ELSE c

\* A missing cell.
NA == <<"<NA>">>
isna(s) == s = NA

\* str.strip() on one text.
RECURSIVE lstrip(_)
lstrip(s) == IF Len(s) > 0 /\ Head(s) = " " THEN lstrip(Tail(s)) ELSE s

RECURSIVE rstrip(_)
rstrip(s) ==
  IF Len(s) > 0 /\ s[Len(s)] = " " THEN rstrip(SubSeq(s, 1, Len(s) - 1)) ELSE s

strip(s) == rstrip(lstrip(s))

\* str.title() on one text: a letter that follows a cased letter is lowered,
\* any other letter is raised.
title(s) ==
  [i \in 1..Len(s) |->
     IF i > 1 /\ IsCased(s[i - 1]) THEN ToLower(s[i]) ELSE ToUpper(s[i])]

\* Series.str.<f>() leaves a missing cell missing.
str_strip_title(s) == IF isna(s) THEN NA ELSE title(strip(s))

\* Series.astype(str): a missing cell becomes the text "nan".
astype_str(s) == IF isna(s) THEN <<"n", "a", "n">> ELSE s

\* Series.str.replace(ch, "", regex=False) on one text.
remove_char(s, ch) == SelectSeq(s, LAMBDA c : c # ch)

\* Python's order on str: lexicographic by code point.
RECURSIVE StrLess(_, _)
StrLess(a, b) ==
  IF Len(b) = 0 THEN FALSE
  ELSE IF Len(a) = 0 THEN TRUE
  ELSE IF Head(a) = Head(b) THEN StrLess(Tail(a), Tail(b))
  ELSE Ord[Head(a)] < Ord[Head(b)]

----------------------------------------------------------------------------
(* Floats                                                                  *)

NaN == [k |-> "nan", n |-> 0, d |-> 0]
None == [k |-> "none", n |-> 0, d |-> 0]
Inf(sign) == [k |-> "inf", n |-> sign, d |-> 0]

Abs(x) == IF x < 0 THEN -x ELSE x
Sign(x) == IF x < 0 THEN -1 ELSE 1

RECURSIVE GCD(_, _)
GCD(a, b) == IF b = 0 THEN a ELSE GCD(b, a % b)

\* The fraction n/d (d # 0) in lowest terms with a positive denominator.
Frac(n, d) ==
  LET g == GCD(Abs(n), Abs(d))
  IN  [k |-> "num", n |-> Sign(d) * (n \div g), d |-> Abs(d) \div g]

Whole(n) == Frac(n, 1)

isnan(x) == x.k = "nan"
IsNum(x) == x.k = "num"

\* x < y on floats; every comparison with NaN (or None) is false.
Less(x, y) ==
  CASE x.k = "num" /\ y.k = "num" -> x.n * y.d < y.n * x.d
    [] x.k = "num" /\ y.k = "inf" -> y.n > 0
    [] x.k = "inf" /\ y.k = "num" -> x.n < 0
    [] x.k = "inf" /\ y.k = "inf" -> x.n < y.n
    [] OTHER -> FALSE

\* x == y on floats: NaN equals nothing, None equals no float.
FloatEq(x, y) == x.k \in {"num", "inf"} /\ x = y

Add(x, y) ==
  CASE x.k = "nan" \/ y.k = "nan" -> NaN
    [] x.k = "num" /\ y.k = "num" -> Frac(x.n * y.d + y.n * x.d, x.d * y.d)
    [] x.k = "inf" /\ y.k = "inf" -> IF x.n = y.n THEN x ELSE NaN
    [] x.k = "inf" -> x
    [] OTHER -> y

\* x / y with numpy's float rules for a zero divisor.
Div(x, y) ==
  CASE x.k = "nan" \/ y.k = "nan" -> NaN
    [] x.k = "num" /\ y.k = "num" ->
         IF y.n # 0 THEN Frac(x.n * y.d, x.d * y.n)
         ELSE IF x.n = 0 THEN NaN ELSE Inf(Sign(x.n))
    [] x.k = "inf" /\ y.k = "inf" -> NaN
    [] x.k = "inf" -> Inf(x.n * (IF y.n < 0 THEN -1 ELSE 1))
    [] OTHER -> Whole(0)

Mul(x, y) ==
  CASE x.k = "nan" \/ y.k = "nan" -> NaN
    [] x.k = "num" /\ y.k = "num" -> Frac(x.n * y.n, x.d * y.d)
    [] x.k = "inf" /\ y.k = "inf" -> Inf(x.n * y.n)
    [] x.k = "inf" -> IF y.n = 0 THEN NaN ELSE Inf(x.n * Sign(y.n))
    [] OTHER -> IF x.n = 0 THEN NaN ELSE Inf(y.n * Sign(x.n))

RECURSIVE Pow10(_)
Pow10(e) == IF e = 0 THEN 1 ELSE 10 * Pow10(e - 1)

DigitVal(c) == Ord[c] - Ord["0"]

RECURSIVE DigitsVal(_)
DigitsVal(t) ==
  IF Len(t) = 0 THEN 0
  ELSE 10 * DigitsVal(SubSeq(t, 1, Len(t) - 1)) + DigitVal(t[Len(t)])

AllDigits(t) == \A i \in 1..Len(t) : t[i] \in Digits

\* An unsigned decimal literal: digits, at most one ".", a digit somewhere.
ParseUnsigned(t) ==
  LET dots == {i \in 1..Len(t) : t[i] = "."}
  IN  IF dots = {} THEN
        IF Len(t) > 0 /\ AllDigits(t) THEN Whole(DigitsVal(t)) ELSE NaN
      ELSE IF Cardinality(dots) > 1 THEN NaN
      ELSE LET p == CHOOSE i \in dots : TRUE
               ip == SubSeq(t, 1, p - 1)
               fp == SubSeq(t, p + 1, Len(t))
           IN  IF Len(ip) + Len(fp) > 0 /\ AllDigits(ip) /\ AllDigits(fp)
               THEN Frac(DigitsVal(ip) * Pow10(Len(fp)) + DigitsVal(fp),
                         Pow10(Len(fp)))
               ELSE NaN

\* pd.to_numeric(..., errors="coerce") on one cell, for the decimal literals
\* the inputs use; a missing cell, the text "nan" and any other text give NaN.
to_numeric(s) ==
  IF isna(s) \/ Len(s) = 0 THEN NaN
  ELSE IF Head(s) = "-" THEN
         LET v == ParseUnsigned(Tail(s))
         IN  IF isnan(v) THEN NaN ELSE Frac(-v.n, v.d)
  ELSE ParseUnsigned(s)

----------------------------------------------------------------------------
(* Sequences as tables                                                     *)

\* The rows of s at the positions that satisfy P, in their order.
SelectAt(s, P(_)) ==
  LET I == {i \in 1..Len(s) : P(i)}
      place == [i \in I |-> Cardinality({j \in I : j < i})]
  IN  [p \in 1..Cardinality(I) |-> s[CHOOSE i \in I : place[i] = p - 1]]

\* A stable sort of s by the strict weak order Before: equal rows keep their
\* order (numpy's lexsort, and its sort of an array of at most 16 elements).
SortBy(s, Before(_, _)) ==
  LET n == Len(s)
      rank == [i \in 1..n |->
                 Cardinality({j \in 1..n :
                                \/ Before(s[j], s[i])
                                \/ (~Before(s[i], s[j]) /\ j < i)})]
  IN  [p \in 1..n |-> s[CHOOSE i \in 1..n : rank[i] = p - 1]]

\* The elements of the set S in the order of the strict total order Before.
Sorted(S, Before(_, _)) ==
  LET rank == [x \in S |-> Cardinality({y \in S : Before(y, x)})]
  IN  [p \in 1..Cardinality(S) |-> CHOOSE x \in S : rank[x] = p - 1]

\* DataFrame.drop_duplicates(subset), keep="first": Key gives a row's subset.
drop_duplicates(s, Key(_)) ==
  SelectAt(s, LAMBDA i : \A j \in 1..(i - 1) : Key(s[j]) # Key(s[i]))

\* DataFrame.head(n).
head(s, n) == SubSeq(s, 1, IF Len(s) < n THEN Len(s) ELSE n)

Range(s) == {s[i] : i \in 1..Len(s)}

\* The order sort_values gives one float column: ascending or descending,
\* NaN last either way.
FloatBefore(x, y, ascending) ==
  IF isnan(x) THEN FALSE
  ELSE IF isnan(y) THEN TRUE
  ELSE IF ascending THEN Less(x, y) ELSE Less(y, x)

\* The same for a text column (ascending), a missing cell last.
TextBefore(a, b) ==
  IF isna(a) THEN FALSE ELSE IF isna(b) THEN TRUE ELSE StrLess(a, b)

\* sum() and mean() of a float column, skipping NaN.
RECURSIVE SumSeq(_)
SumSeq(xs) == IF Len(xs) = 0 THEN Whole(0) ELSE Add(Head(xs), SumSeq(Tail(xs)))

sum(xs) == SumSeq(SelectSeq(xs, LAMBDA x : ~isnan(x)))

mean(xs) ==
  LET ys == SelectSeq(xs, LAMBDA x : ~isnan(x))
  IN  IF Len(ys) = 0 THEN NaN ELSE Div(SumSeq(ys), Whole(Len(ys)))

----------------------------------------------------------------------------
(* Program constants                                                       *)

party_map_keys ==
  << <<"B", "h", "a", "r", "a", "t", "i", "y", "a", " ", "J", "a", "n", "a",
       "t", "a", " ", "P", "a", "r", "t", "y">>,
     <<"I", "n", "d", "i", "a", "n", " ", "N", "a", "t", "i", "o", "n", "a",
       "l", " ", "C", "o", "n", "g", "r", "e", "s", "s">>,
     <<"B", "a", "h", "u", "j", "a", "n", " ", "S", "a", "m", "a", "j", " ",
       "P", "a", "r", "t", "y">>,
     <<"A", "a", "m", " ", "A", "a", "d", "m", "i", " ", "P", "a", "r", "t",
       "y">>,
     <<"C", "o", "m", "m", "u", "n", "i", "s", "t", " ", "P", "a", "r", "t",
       "y", " ", "O", "f", " ", "I", "n", "d", "i", "a", " ", "(", "M", "a",
       "r", "x", "i", "s", "t", ")">>,
     <<"A", "l", "l", " ", "I", "n", "d", "i", "a", " ", "T", "r", "i", "n",
       "a", "m", "o", "o", "l", " ", "C", "o", "n", "g", "r", "e", "s", "s">>,
     <<"J", "a", "n", "a", "t", "a", " ", "D", "a", "l", " ", "(", "U", "n",
       "i", "t", "e", "d", ")">>,
     <<"S", "a", "m", "a", "j", "w", "a", "d", "i", " ", "P", "a", "r", "t",
       "y">> >>

party_map_values ==
  << <<"B", "J", "P">>, <<"I", "N", "C">>, <<"B", "S", "P">>,
     <<"A", "A", "P">>, <<"C", "P", "M">>, <<"T", "M", "C">>,
     <<"J", "D", "U">>, <<"S", "P">> >>

\* Series.replace(party_map) on one cell: a cell equal to a key becomes the
\* key's value, any other cell is kept.
replace_party_map(s) ==
  IF \E i \in 1..Len(party_map_keys) : party_map_keys[i] = s
  THEN party_map_values[CHOOSE i \in 1..Len(party_map_keys) :
                          party_map_keys[i] = s]
  ELSE s

major_parties ==
  << <<"B", "J", "P">>, <<"I", "N", "C">>, <<"B", "S", "P">>,
     <<"A", "A", "P">>, <<"C", "P", "M">>, <<"T", "M", "C">>,
     <<"J", "D", "U">>, <<"S", "P">> >>

OTHER_ == <<"O", "T", "H", "E", "R">>

\* The keys of plot_map's color_map.
color_map_keys == Range(major_parties) \cup {OTHER_}

bins == <<0, 1, 5, 10, 15, 20, 30, 40, 50, 100>>

labels ==
  <<"0-1", "1-5", "5-10", "10-15", "15-20", "20-30", "30-40", "40-50",
    "50-100">>

\* The keys of plot_margin_map's color_discrete_map.
color_discrete_map_keys == Range(labels) \cup {"gray"}

\* groupby(["state", "year"]).head(10) and the heatmap's .head(10).
TopN == 10

\* candidate_wins["wins"] > 5.
MinWins == 5

\* plot_dom_graph's .head(25).
TopDominance == 25

----------------------------------------------------------------------------
(* State                                                                   *)

VARIABLES
  pc,                     \* the block of module-level statements to run next
  csv_file,               \* the rows of "Loksabha_1962-2019 .csv"
  geojson_file,           \* the features of "india_pc_2019_simplified.geojson"
  df_hist, geo,
  df_dom, dominant, state_party_dominance,
  available_years, turnout_top, states,
  candidate_wins, top_candidates, sunburst_data,
  fig                     \* what the last callback returned (or raised)

files == <<csv_file, geojson_file>>
tables ==
  <<df_hist, geo, df_dom, dominant, state_party_dominance, available_years,
    turnout_top, states, candidate_wins, top_candidates, sunburst_data>>
vars == <<pc, files, tables, fig>>

----------------------------------------------------------------------------
(* Start-up: load, clean, precompute                                       *)

\* pd.read_csv / gpd.read_file: the rows in file order under a RangeIndex.
LoadData ==
  /\ pc = "load"
  /\ df_hist' = [i \in 1..Len(csv_file) |-> [idx |-> i - 1] @@ csv_file[i]]
  /\ geo' = [i \in 1..Len(geojson_file) |-> [idx |-> i - 1] @@ geojson_file[i]]
  /\ pc' = "clean_party"
  /\ UNCHANGED <<files, df_dom, dominant, state_party_dominance,
                 available_years, turnout_top, states, candidate_wins,
                 top_candidates, sunburst_data, fig>>

\* df_hist["party"].astype(str).str.strip().str.title(), then
\* .replace(party_map), on one cell.
clean_party(cell) == replace_party_map(title(strip(astype_str(cell))))

CleanParty ==
  /\ pc = "clean_party"
  /\ df_hist' = [i \in 1..Len(df_hist) |->
                   [df_hist[i] EXCEPT !.party = clean_party(@)]]
  /\ pc' = "clean_numeric"
  /\ UNCHANGED <<files, geo, df_dom, dominant, state_party_dominance,
                 available_years, turnout_top, states, candidate_wins,
                 top_candidates, sunburst_data, fig>>

\* pd.to_numeric(col.astype(str).str.replace(ch, "", regex=False),
\* errors="coerce") on one cell.
clean_number(cell, ch) == to_numeric(remove_char(astype_str(cell), ch))

\* Line 48 left out: the parsed raw Turnout is kept.
recompute_turnout_skipped(r) == r.Turnout

\* (df_hist["votes"] / df_hist["electors"]) * 100 on one row.
recompute_turnout(r) == Mul(Div(r.votes, r.electors), Whole(100))

CleanNumeric ==
  /\ pc = "clean_numeric"
  /\ LET parsed ==
           [i \in 1..Len(df_hist) |->
              [df_hist[i] EXCEPT
                 !.year = to_numeric(@),
                 !.Turnout = clean_number(@, "%"),
                 !.margin_pct = clean_number(@, "%"),
                 !.votes = clean_number(@, ","),
                 !.electors = clean_number(@, ",")]]
         kept ==
           SelectSeq(parsed,
                     LAMBDA r : ~isnan(r.Turnout) /\ ~isnan(r.votes)
                                /\ ~isnan(r.electors))
     IN  df_hist' = [i \in 1..Len(kept) |->
                       [kept[i] EXCEPT !.Turnout = recompute_turnout(kept[i])]]
  /\ pc' = "dominance"
  /\ UNCHANGED <<files, geo, df_dom, dominant, state_party_dominance,
                 available_years, turnout_top, states, candidate_wins,
                 top_candidates, sunburst_data, fig>>

\* df_hist.dropna(subset=["state", "party", "year"]).
dropna_dom(df) ==
  SelectSeq(df, LAMBDA r : ~isna(r.state) /\ ~isna(r.party) /\ ~isnan(r.year))

\* The order of the group keys (state, year, party) groupby sorts by.
DomKeyBefore(a, b) ==
  \/ StrLess(a.state, b.state)
  \/ /\ a.state = b.state
     /\ \/ Less(a.year, b.year)
        \/ a.year = b.year /\ StrLess(a.party, b.party)

\* df_dom.groupby(["state", "year", "party"]).size().reset_index(name="seats")
groupby_size_seats(df) ==
  LET keys == {[state |-> df[i].state, year |-> df[i].year,
                party |-> df[i].party] :
                 i \in {j \in 1..Len(df) :
                          /\ ~isna(df[j].state) /\ ~isnan(df[j].year)
                          /\ ~isna(df[j].party)}}
      sized(key) ==
        [state |-> key.state, year |-> key.year, party |-> key.party,
         seats |-> Cardinality({i \in 1..Len(df) :
                                  /\ df[i].state = key.state
                                  /\ df[i].year = key.year
                                  /\ df[i].party = key.party})]
      ordered == Sorted(keys, DomKeyBefore)
  IN  [p \in 1..Len(ordered) |-> sized(ordered[p])]

\* ascending=[True, True, False] left out: the seats ascending too.
SeatsOrderAscending(a, b) ==
  \/ StrLess(a.state, b.state)
  \/ /\ a.state = b.state
     /\ \/ Less(a.year, b.year)
        \/ a.year = b.year /\ a.seats < b.seats

\* .sort_values(["state", "year", "seats"], ascending=[True, True, False])
SeatsOrder(a, b) ==
  \/ StrLess(a.state, b.state)
  \/ /\ a.state = b.state
     /\ \/ Less(a.year, b.year)
        \/ a.year = b.year /\ a.seats > b.seats

\* The whole expression that defines dominant.
compute_dominant(df) ==
  drop_duplicates(SortBy(groupby_size_seats(df), SeatsOrder),
                  LAMBDA r : <<r.state, r.year>>)

\* dominant.groupby(["state", "party"]).size()
\*         .reset_index(name="times_dominated")
groupby_size_times(dom) ==
  LET keys == {[state |-> dom[i].state, party |-> dom[i].party] :
                 i \in 1..Len(dom)}
      before(a, b) ==
        \/ StrLess(a.state, b.state)
        \/ a.state = b.state /\ StrLess(a.party, b.party)
      ordered == Sorted(keys, before)
  IN  [p \in 1..Len(ordered) |->
         [state |-> ordered[p].state, party |-> ordered[p].party,
          times_dominated |->
            Cardinality({i \in 1..Len(dom) :
                           /\ dom[i].state = ordered[p].state
                           /\ dom[i].party = ordered[p].party})]]

RegionalDominance ==
  /\ pc = "dominance"
  /\ df_dom' = dropna_dom(df_hist)
  /\ dominant' = compute_dominant(df_dom')
  /\ state_party_dominance' = groupby_size_times(dominant')
  /\ pc' = "clean_names"
  /\ UNCHANGED <<files, df_hist, geo, available_years, turnout_top, states,
                 candidate_wins, top_candidates, sunburst_data, fig>>

\* sorted(df_hist["year"].dropna().unique())
sorted_years(df) ==
  Sorted({df[i].year : i \in {j \in 1..Len(df) : ~isnan(df[j].year)}}, Less)

CleanNames ==
  /\ pc = "clean_names"
  /\ df_hist' = [i \in 1..Len(df_hist) |->
                   [df_hist[i] EXCEPT !.Pc_name = str_strip_title(@)]]
  /\ geo' = [i \in 1..Len(geo) |->
               [geo[i] EXCEPT !.pc_name = str_strip_title(@)]]
  /\ available_years' = sorted_years(df_hist')
  /\ pc' = "turnout_top"
  /\ UNCHANGED <<files, df_dom, dominant, state_party_dominance, turnout_top,
                 states, candidate_wins, top_candidates, sunburst_data, fig>>

\* .sort_values(["state", "year", "Turnout"], ascending=[True, True, False]):
\* a missing key sorts last in its column.
TurnoutOrder(a, b) ==
  LET same_state == ~TextBefore(a.state, b.state) /\ ~TextBefore(b.state, a.state)
      same_year == /\ ~FloatBefore(a.year, b.year, TRUE)
                   /\ ~FloatBefore(b.year, a.year, TRUE)
  IN  \/ TextBefore(a.state, b.state)
      \/ /\ same_state
         /\ \/ FloatBefore(a.year, b.year, TRUE)
            \/ same_year /\ FloatBefore(a.Turnout, b.Turnout, FALSE)

\* .groupby(["state", "year"]).head(n): the first n rows of every group, in
\* the frame's order; a row with a missing key is in no group.
groupby_head(df, n) ==
  SelectAt(df,
           LAMBDA i :
             /\ ~isna(df[i].state)
             /\ ~isnan(df[i].year)
             /\ Cardinality({j \in 1..(i - 1) :
                               /\ df[j].state = df[i].state
                               /\ df[j].year = df[i].year}) < n)

compute_turnout_top(df) == groupby_head(SortBy(df, TurnoutOrder), TopN)

TurnoutTop ==
  /\ pc = "turnout_top"
  /\ turnout_top' = compute_turnout_top(df_hist)
  /\ pc' = "layout"
  /\ UNCHANGED <<files, df_hist, geo, df_dom, dominant, state_party_dominance,
                 available_years, states, candidate_wins, top_candidates,
                 sunburst_data, fig>>

\* sorted(df_hist["state"].dropna().unique())
sorted_states(df) ==
  Sorted({df[i].state : i \in {j \in 1..Len(df) : ~isna(df[j].state)}},
         StrLess)

\* The layout takes available_years[-1] and states[0] as the dropdowns'
\* defaults: an empty list raises IndexError and the script ends.
AppLayout ==
  /\ pc = "layout"
  /\ states' = sorted_states(df_hist)
  /\ pc' = IF Len(available_years) = 0 \/ Len(states') = 0
           THEN "crashed" ELSE "margin_color"
  /\ UNCHANGED <<files, df_hist, geo, df_dom, dominant, state_party_dominance,
                 available_years, turnout_top, candidate_wins, top_candidates,
                 sunburst_data, fig>>

\* pd.cut with right=False: bins closed on the left.
cut_right_open(x) ==
  LET upto == Cardinality({i \in 1..Len(bins) : ~Less(x, Whole(bins[i]))})
  IN  IF isnan(x) \/ upto = Len(bins) \/ upto = 0 THEN "<NA>"
      ELSE labels[upto]

\* pd.cut(x, bins, labels, include_lowest=True, right=True) on one value:
\* searchsorted(side="left") counts the edges below x, the lowest edge itself
\* goes to the first bin, and a value in no bin is missing.
cut(x) ==
  LET below == Cardinality({i \in 1..Len(bins) : Less(Whole(bins[i]), x)})
      ids == IF x = Whole(bins[1]) THEN 1 ELSE below
  IN  IF isnan(x) \/ ids = Len(bins) \/ ids = 0 THEN "<NA>" ELSE labels[ids]

\* .cat.add_categories(["gray"]) and .fillna("gray") on one value.
fillna_gray(c) == IF c = "<NA>" THEN "gray" ELSE c

MarginColor ==
  /\ pc = "margin_color"
  /\ df_hist' = [i \in 1..Len(df_hist) |->
                   [margin_color |-> fillna_gray(cut(df_hist[i].margin_pct))]
                   @@ df_hist[i]]
  /\ pc' = "sunburst"
  /\ UNCHANGED <<files, geo, df_dom, dominant, state_party_dominance,
                 available_years, turnout_top, states, candidate_wins,
                 top_candidates, sunburst_data, fig>>

\* df_hist.groupby(["candidate_name", "party"]).size()
\*        .reset_index(name="wins")
groupby_size_wins(df) ==
  LET keys == {[candidate_name |-> df[i].candidate_name,
                party |-> df[i].party] :
                 i \in {j \in 1..Len(df) :
                          ~isna(df[j].candidate_name) /\ ~isna(df[j].party)}}
      before(a, b) ==
        \/ StrLess(a.candidate_name, b.candidate_name)
        \/ /\ a.candidate_name = b.candidate_name
           /\ StrLess(a.party, b.party)
      ordered == Sorted(keys, before)
  IN  [p \in 1..Len(ordered) |->
         [candidate_name |-> ordered[p].candidate_name,
          party |-> ordered[p].party,
          wins |->
            Cardinality({i \in 1..Len(df) :
                           /\ df[i].candidate_name = ordered[p].candidate_name
                           /\ df[i].party = ordered[p].party})]]

\* >= written for >.
filter_top_candidates_inclusive(cw) ==
  SelectSeq(cw, LAMBDA r : r.wins >= MinWins)

\* candidate_wins[candidate_wins["wins"] > 5]
filter_top_candidates(cw) == SelectSeq(cw, LAMBDA r : r.wins > MinWins)

SunburstData ==
  /\ pc = "sunburst"
  /\ candidate_wins' = groupby_size_wins(df_hist)
  /\ top_candidates' = filter_top_candidates(candidate_wins')
  /\ sunburst_data' =
       [i \in 1..Len(top_candidates') |->
          [party |-> top_candidates'[i].party,
           candidate_name |-> top_candidates'[i].candidate_name,
           wins |-> top_candidates'[i].wins]]
  /\ pc' = "serving"
  /\ UNCHANGED <<files, df_hist, geo, df_dom, dominant, state_party_dominance,
                 available_years, turnout_top, states, fig>>

----------------------------------------------------------------------------
(* Callbacks                                                               *)

\* What a cleared dropdown delivers.
NoneText == <<"<None>">>

\* The values the two year dropdowns and the state dropdown can deliver.
YearValues == Range(available_years) \cup {None}
StateValues == Range(states) \cup {NoneText}

\* geo.merge(right, left_on="pc_name", right_on="Pc_name", how="left"): the
\* regions in geo's order, each once per matching row of right (in right's
\* order), or once with the right columns missing (blank) when none matches;
\* equal keys match, a missing key matching a missing key.
RECURSIVE merge_rows(_, _, _)
merge_rows(g, right, blank) ==
  IF Len(g) = 0 THEN << >>
  ELSE LET l == Head(g)
           m == SelectSeq(right, LAMBDA r : r.Pc_name = l.pc_name)
           left == [pc_name |-> l.pc_name, geometry |-> l.geometry]
           out == IF Len(m) = 0 THEN <<left @@ blank>>
                  ELSE [i \in 1..Len(m) |-> left @@ m[i]]
       IN  out \o merge_rows(Tail(g), right, blank)

merge_left(g, right, blank) ==
  LET rows == merge_rows(g, right, blank)
  IN  [i \in 1..Len(rows) |-> [idx |-> i - 1] @@ rows[i]]

\* df_hist[df_hist["year"] == selected_year]
rows_of_year(selected_year) ==
  SelectSeq(df_hist, LAMBDA r : FloatEq(r.year, selected_year))

\* merged_map of plot_map, after the fillna("OTHER").
map_merged(selected_year) ==
  LET sel == rows_of_year(selected_year)
      cols == [i \in 1..Len(sel) |->
                 [Pc_name |-> sel[i].Pc_name, party |-> sel[i].party,
                  candidate_name |-> sel[i].candidate_name]]
      df_year == drop_duplicates(cols, LAMBDA r : r)
      merged_map == merge_left(geo, df_year,
                               [Pc_name |-> NA, party |-> NA,
                                candidate_name |-> NA])
  IN  [i \in 1..Len(merged_map) |->
         [merged_map[i] EXCEPT !.party = IF isna(@) THEN OTHER_ ELSE @]]

\* int(selected_year) in the title raises TypeError for None.
plot_map(selected_year) ==
  /\ pc = "serving"
  /\ fig' = IF selected_year = None
            THEN [graph |-> "map-graph", kind |-> "raised",
                  error |-> "TypeError", input |-> selected_year]
            ELSE [graph |-> "map-graph", kind |-> "choropleth",
                  input |-> selected_year, color |-> "party",
                  data |-> map_merged(selected_year)]
  /\ UNCHANGED <<pc, files, tables>>

\* merged_map of plot_margin_map, after the fillna("gray").
margin_merged(selected_year) ==
  LET sel == rows_of_year(selected_year)
      cols == [i \in 1..Len(sel) |->
                 [Pc_name |-> sel[i].Pc_name,
                  margin_pct |-> sel[i].margin_pct,
                  margin_color |-> sel[i].margin_color,
                  party |-> sel[i].party]]
      df_year == drop_duplicates(cols, LAMBDA r : r)
      merged_map == merge_left(geo, df_year,
                               [Pc_name |-> NA, margin_pct |-> NaN,
                                margin_color |-> "<NA>", party |-> NA])
  IN  [i \in 1..Len(merged_map) |->
         [merged_map[i] EXCEPT !.margin_color = fillna_gray(@)]]

plot_margin_map(selected_year) ==
  /\ pc = "serving"
  /\ fig' = IF selected_year = None
            THEN [graph |-> "margin-map-graph", kind |-> "raised",
                  error |-> "TypeError", input |-> selected_year]
            ELSE [graph |-> "margin-map-graph", kind |-> "choropleth",
                  input |-> selected_year, color |-> "margin_color",
                  data |-> margin_merged(selected_year)]
  /\ UNCHANGED <<pc, files, tables>>

plot_sunburst ==
  /\ pc = "serving"
  /\ fig' = [graph |-> "sunburst-chart", kind |-> "sunburst",
             data |-> sunburst_data]
  /\ UNCHANGED <<pc, files, tables>>

\* df_hist[df_hist["party"].isin(major_parties)].groupby(["year", "party"])
\*   .agg(seats=("Pc_name", "count"), total_votes=("votes", "sum"),
\*        avg_turnout=("Turnout", "mean")).reset_index()
history_grouped ==
  LET df == SelectSeq(df_hist, LAMBDA r : r.party \in Range(major_parties))
      keys == {[year |-> df[i].year, party |-> df[i].party] :
                 i \in {j \in 1..Len(df) : ~isnan(df[j].year)}}
      before(a, b) ==
        \/ Less(a.year, b.year)
        \/ a.year = b.year /\ StrLess(a.party, b.party)
      ordered == Sorted(keys, before)
      group(key) ==
        SelectSeq(df, LAMBDA r : r.year = key.year /\ r.party = key.party)
      column(rows, F(_)) == [i \in 1..Len(rows) |-> F(rows[i])]
  IN  [p \in 1..Len(ordered) |->
         LET rows == group(ordered[p])
         IN  [year |-> ordered[p].year, party |-> ordered[p].party,
              seats |-> Len(SelectSeq(rows, LAMBDA r : ~isna(r.Pc_name))),
              total_votes |-> sum(column(rows, LAMBDA r : r.votes)),
              avg_turnout |-> mean(column(rows, LAMBDA r : r.Turnout))]]

history_figure ==
  LET grouped == history_grouped
      parties == drop_duplicates([i \in 1..Len(grouped) |-> grouped[i].party],
                                 LAMBDA x : x)
      years == Sorted({grouped[i].year : i \in 1..Len(grouped)}, Less)
      of_year(y) == SelectSeq(grouped, LAMBDA r : r.year = y)
  IN  IF Len(grouped) = 0
      THEN [graph |-> "hist-graph", kind |-> "placeholder",
            title |-> "No historical data available."]
      ELSE [graph |-> "hist-graph", kind |-> "history",
            seats |->
              [i \in 1..Len(parties) |->
                 LET df_party ==
                       SelectSeq(grouped, LAMBDA r : r.party = parties[i])
                 IN  [name |-> parties[i],
                      x |-> [j \in 1..Len(df_party) |-> df_party[j].year],
                      y |-> [j \in 1..Len(df_party) |-> df_party[j].seats]]],
            votes_total |->
              [i \in 1..Len(years) |->
                 LET rows == of_year(years[i])
                 IN  [year |-> years[i],
                      total_votes |->
                        sum([j \in 1..Len(rows) |-> rows[j].total_votes])]],
            turnout_mean |->
              [i \in 1..Len(years) |->
                 LET rows == of_year(years[i])
                 IN  [year |-> years[i],
                      avg_turnout |->
                        mean([j \in 1..Len(rows) |-> rows[j].avg_turnout])]]]

plot_history ==
  /\ pc = "serving"
  /\ fig' = history_figure
  /\ UNCHANGED <<pc, files, tables>>

\* df of plot_heatmap after line 384: the rows of turnout_top of the state,
\* copied by the boolean indexing, their Pc_name normalised again.
heatmap_df(state) ==
  LET df == SelectSeq(turnout_top, LAMBDA r : r.state = state)
  IN  [i \in 1..Len(df) |-> [df[i] EXCEPT !.Pc_name = str_strip_title(@)]]

\* The callback filtering the global table itself (global turnout_top).
turnout_top_rebound(state) == heatmap_df(state)

\* turnout_top after plot_heatmap(state): line 377 makes a copy, so the
\* assignment of line 384 does not reach the global table.
turnout_top_after_heatmap(state) == turnout_top

\* df.groupby("Pc_name")["Turnout"].mean().sort_values(ascending=False)
\*   .head(10).index
heatmap_top_10(df) ==
  LET names == Sorted({df[i].Pc_name :
                         i \in {j \in 1..Len(df) : ~isna(df[j].Pc_name)}},
                      StrLess)
      turnouts(nm) ==
        LET rows == SelectSeq(df, LAMBDA r : r.Pc_name = nm)
        IN  [i \in 1..Len(rows) |-> rows[i].Turnout]
      means == [i \in 1..Len(names) |->
                  [Pc_name |-> names[i], Turnout |-> mean(turnouts(names[i]))]]
      ordered == SortBy(means,
                        LAMBDA a, b : FloatBefore(a.Turnout, b.Turnout, FALSE))
      top == head(ordered, TopN)
  IN  [i \in 1..Len(top) |-> top[i].Pc_name]

\* The pivot table's cell: the mean Turnout of the rows of (name, year), 0
\* where there is none (fill_value=0).
pivot_cell(df, nm, year) ==
  LET rows == SelectSeq(df, LAMBDA r : r.Pc_name = nm /\ r.year = year)
      m == mean([i \in 1..Len(rows) |-> rows[i].Turnout])
  IN  IF isnan(m) THEN Whole(0) ELSE m

\* pivot_table drops a group whose mean is NaN, so a name all of whose
\* Turnout values are NaN is not in the pivot's index and pivot.loc raises.
heatmap_figure(state) ==
  LET df == heatmap_df(state)
      valid == SelectSeq(df, LAMBDA r : ~isnan(r.Turnout))
      index == {valid[i].Pc_name : i \in 1..Len(valid)}
      years == Sorted({valid[i].year : i \in 1..Len(valid)}, Less)
      top_10 == heatmap_top_10(df)
  IN  IF Len(df) = 0
      THEN [graph |-> "turnout-heatmap", kind |-> "placeholder",
            input |-> state,
            title |-> "No data available for selected state."]
      ELSE IF \E i \in 1..Len(top_10) : top_10[i] \notin index
      THEN [graph |-> "turnout-heatmap", kind |-> "raised",
            error |-> "KeyError", input |-> state]
      ELSE [graph |-> "turnout-heatmap", kind |-> "heatmap",
            input |-> state, y |-> top_10, x |-> years,
            z |-> [i \in 1..Len(top_10) |->
                     [j \in 1..Len(years) |->
                        pivot_cell(df, top_10[i], years[j])]]]

plot_heatmap(state) ==
  /\ pc = "serving"
  /\ fig' = heatmap_figure(state)
  /\ turnout_top' = turnout_top_after_heatmap(state)
  /\ UNCHANGED <<pc, files, df_hist, geo, df_dom, dominant,
                 state_party_dominance, available_years, states,
                 candidate_wins, top_candidates, sunburst_data>>

\* state_party_dominance.sort_values(by="times_dominated", ascending=False)
\*   .head(25)
plot_dom_graph ==
  /\ pc = "serving"
  /\ fig' = [graph |-> "dominance-graph", kind |-> "bar",
             data |-> head(SortBy(state_party_dominance,
                                  LAMBDA a, b :
                                    a.times_dominated > b.times_dominated),
                           TopDominance)]
  /\ UNCHANGED <<pc, files, tables>>

----------------------------------------------------------------------------
(* Specification                                                           *)

\* The state before the script's first statement, given the two files.
InitWith(csv, geojson) ==
  /\ pc = "load"
  /\ csv_file = csv
  /\ geojson_file = geojson
  /\ df_hist = << >>
  /\ geo = << >>
  /\ df_dom = << >>
  /\ dominant = << >>
  /\ state_party_dominance = << >>
  /\ available_years = << >>
  /\ turnout_top = << >>
  /\ states = << >>
  /\ candidate_wins = << >>
  /\ top_candidates = << >>
  /\ sunburst_data = << >>
  /\ fig = [graph |-> "none", kind |-> "none"]

Next ==
  \/ LoadData
  \/ CleanParty
  \/ CleanNumeric
  \/ RegionalDominance
  \/ CleanNames
  \/ TurnoutTop
  \/ AppLayout
  \/ MarginColor
  \/ SunburstData
  \/ \E y \in YearValues : plot_map(y)
  \/ \E y \in YearValues : plot_margin_map(y)
  \/ plot_sunburst
  \/ plot_history
  \/ \E s \in StateValues : plot_heatmap(s)
  \/ plot_dom_graph

----------------------------------------------------------------------------
(* Input files                                                             *)

\* Every sequence over D of length lo..hi.
Seqs(D, lo, hi) == UNION {[1..n -> D] : n \in lo..hi}

UP == <<"U", "P">>
MP == <<"M", "P">>
Y2014 == <<"2", "0", "1", "4">>
Y2019 == <<"2", "0", "1", "9">>

\* One row of the results file.
BaseRow ==
  [state |-> UP, year |-> Y2019,
   party |-> <<"S", "a", "m", "a", "j", "w", "a", "d", "i", " ", "P", "a", "r", "t", "y">>,
   Pc_name |-> <<"A", "g", "r", "a">>,
   candidate_name |-> <<"R", "a", "m">>,
   Turnout |-> <<"6", "5", "%">>,
   votes |-> <<"6", "0", "0">>,
   electors |-> <<"1", ",", "0", "0", "0">>,
   margin_pct |-> <<"1", "2", ".", "5", "%">>]

\* A boundary file of two constituencies, spelt as such files are.
BaseGeo ==
  <<[pc_name |-> <<"A", "G", "R", "A">>, geometry |-> 1],
    [pc_name |-> <<" ", "k", "o", "t", "a", " ">>, geometry |-> 2]>>

\* Rows per file in the runs about the Turnout column.
MaxRowsTurnout == 2

\* Raw Turnout, votes and electors cells: parseable, unparseable, missing,
\* a zero divisor.
TurnoutCells == {<<"6", "5", "%">>, <<"7">>, NA}
VotesCells == {<<"6", "0", "0">>, <<"0">>, <<"x">>}
ElectorsCells == {<<"1", ",", "0", "0", "0">>, <<"0">>}

TurnoutRows ==
  {[BaseRow EXCEPT !.Turnout = tc, !.votes = vc, !.electors = ec] :
     tc \in TurnoutCells, vc \in VotesCells, ec \in ElectorsCells}

InitTurnout ==
  \E csv \in Seqs(TurnoutRows, 1, MaxRowsTurnout) : InitWith(csv, BaseGeo)

SpecTurnout == InitTurnout /\ [][Next]_vars


\* The file row a row of df_hist was read from.
raw(r) == csv_file[r.idx + 1]

\* The start-up blocks that have run once pc is past them.
AfterCleanNumeric == pc \notin {"load", "clean_party", "clean_numeric"}
AfterDominance == AfterCleanNumeric /\ pc # "dominance"
AfterMarginColor == pc \in {"sunburst", "serving"}

\* t is the float votes / electors * 100, stated by cross-multiplication.
IsTurnoutOf(t, v, e) ==
  IF e.n # 0 THEN t.k = "num" /\ t.n * e.n * v.d = 100 * v.n * e.d * t.d
  ELSE IF v.n = 0 THEN isnan(t)
  ELSE t.k = "inf" /\ t.n = Sign(v.n)

\* C1: after the cleaning step every row kept in df_hist has Turnout =
\* votes / electors * 100 of its own parsed votes and electors, and two kept
\* rows whose file rows differ in nothing but the raw Turnout cell have the
\* same Turnout.
C1_TurnoutRecomputed ==
  AfterCleanNumeric =>
    /\ \A i \in 1..Len(df_hist) :
         /\ IsNum(df_hist[i].votes) /\ IsNum(df_hist[i].electors)
         /\ df_hist[i].votes = clean_number(raw(df_hist[i]).votes, ",")
         /\ df_hist[i].electors = clean_number(raw(df_hist[i]).electors, ",")
         /\ IsTurnoutOf(df_hist[i].Turnout, df_hist[i].votes,
                        df_hist[i].electors)
    /\ \A i, j \in 1..Len(df_hist) :
         [raw(df_hist[i]) EXCEPT !.Turnout = NA]
           = [raw(df_hist[j]) EXCEPT !.Turnout = NA]
         => df_hist[i].Turnout = df_hist[j].Turnout

\* Two kept rows that differ only in the raw Turnout cell, both parseable to
\* different numbers, neither of them the recomputed value.
C1_Witness ==
  /\ pc = "serving"
  /\ \E i, j \in 1..Len(df_hist) :
       /\ raw(df_hist[i]).Turnout # raw(df_hist[j]).Turnout
       /\ [raw(df_hist[i]) EXCEPT !.Turnout = NA]
            = [raw(df_hist[j]) EXCEPT !.Turnout = NA]
       /\ clean_number(raw(df_hist[i]).Turnout, "%") # df_hist[i].Turnout
       /\ clean_number(raw(df_hist[j]).Turnout, "%") # df_hist[i].Turnout
       /\ df_hist[i].Turnout = Whole(60)
       /\ df_hist[j].Turnout = Whole(60)

----------------------------------------------------------------------------

\* Rows per file in the runs about the margin buckets.
MaxRowsMargin == 2

\* Raw margin% cells: missing, negative, the bin edges, values inside the
\* bins, values above 100.
MarginCells ==
  {NA, <<"-", "0", ".", "5", "%">>, <<"0">>, <<"0", ".", "5", "%">>, <<"1">>, <<"5">>,
   <<"5", ".", "5">>, <<"1", "0">>, <<"1", "5">>, <<"2", "0">>, <<"3", "0">>,
   <<"4", "0">>, <<"5", "0">>, <<"1", "0", "0">>, <<"1", "0", "0", ".", "5", "%">>}

MarginRows == {[BaseRow EXCEPT !.margin_pct = mc] : mc \in MarginCells}

InitMargin ==
  \E csv \in Seqs(MarginRows, 1, MaxRowsMargin) : InitWith(csv, BaseGeo)

SpecMargin == InitMargin /\ [][Next]_vars

\* The labels whose interval (lo, hi] holds m, the first one closed at 0.
BucketsOf(m) ==
  {i \in 1..Len(labels) :
     \/ /\ Less(Whole(bins[i]), m)
        /\ ~Less(Whole(bins[i + 1]), m)
     \/ i = 1 /\ m = Whole(0)}

\* C5: every row of df_hist has exactly one margin_color, one of the nine
\* labels or 'gray'; a margin% within 0..100 has the label of the one
\* interval (lo, hi] that holds it (0 in '0-1'), any other margin% 'gray'.
C5_MarginBucket ==
  AfterMarginColor =>
    \A i \in 1..Len(df_hist) :
      LET m == df_hist[i].margin_pct
          c == df_hist[i].margin_color
      IN  /\ c \in color_discrete_map_keys
          /\ IF IsNum(m) /\ ~Less(m, Whole(0)) /\ ~Less(Whole(100), m)
             THEN /\ Cardinality(BucketsOf(m)) = 1
                  /\ \A b \in BucketsOf(m) : c = labels[b]
             ELSE c = "gray"

\* An edge value in the lower bucket next to a value with no bucket.
C5_Witness ==
  /\ pc = "serving"
  /\ \E i, j \in 1..Len(df_hist) :
       /\ df_hist[i].margin_pct = Whole(5)
       /\ df_hist[i].margin_color = "1-5"
       /\ Less(Whole(100), df_hist[j].margin_pct)
       /\ df_hist[j].margin_color = "gray"

----------------------------------------------------------------------------

\* Rows per file in the runs about the dominant party.
MaxRowsDom == 5

SP_full == <<"S", "a", "m", "a", "j", "w", "a", "d", "i", " ", "P", "a", "r", "t", "y">>
INC_abbr == <<"I", "N", "C">>
bjp_abbr == <<"b", "j", "p">>

\* Wins of three parties in UP 2019, and a win in another state and year.
DomRows ==
  {[BaseRow EXCEPT !.party = p] : p \in {SP_full, INC_abbr, bjp_abbr}}
  \cup {[BaseRow EXCEPT !.state = MP, !.year = Y2014, !.party = SP_full]}

InitDom == \E csv \in Seqs(DomRows, 1, MaxRowsDom) : InitWith(csv, BaseGeo)

SpecDom == InitDom /\ [][Next]_vars

\* The seats of a party in a state and year: its rows in df_dom.
SeatsIn(st, yr, pty) ==
  Cardinality({i \in 1..Len(df_dom) :
                 /\ df_dom[i].state = st
                 /\ df_dom[i].year = yr
                 /\ df_dom[i].party = pty})

\* C2: every (state, year) with a row in df_dom has exactly one row in
\* dominant (and dominant has no other row); that row's party has at least
\* as many seats as every party of the state and year, and among the parties
\* with the most seats it is the first in string order, so the input
\* decides it.
C2_DominantParty ==
  AfterDominance =>
    /\ \A i \in 1..Len(df_dom) :
         Cardinality({j \in 1..Len(dominant) :
                        /\ dominant[j].state = df_dom[i].state
                        /\ dominant[j].year = df_dom[i].year}) = 1
    /\ \A j \in 1..Len(dominant) :
         LET d == dominant[j]
         IN  /\ d.seats >= 1
             /\ d.seats = SeatsIn(d.state, d.year, d.party)
             /\ \A i \in 1..Len(df_dom) :
                  (df_dom[i].state = d.state /\ df_dom[i].year = d.year)
                  => LET s == SeatsIn(d.state, d.year, df_dom[i].party)
                     IN  /\ s <= d.seats
                         /\ s = d.seats
                            => ~StrLess(df_dom[i].party, d.party)

\* A dominant party picked from a tie, with a party before it in string
\* order that has fewer seats.
C2_Witness ==
  /\ pc = "serving"
  /\ \E j \in 1..Len(dominant) :
       /\ \E i \in 1..Len(df_dom) :
            /\ df_dom[i].state = dominant[j].state
            /\ df_dom[i].year = dominant[j].year
            /\ StrLess(df_dom[i].party, dominant[j].party)
            /\ SeatsIn(dominant[j].state, dominant[j].year, df_dom[i].party)
                 < dominant[j].seats
       /\ \E i \in 1..Len(df_dom) :
            /\ df_dom[i].state = dominant[j].state
            /\ df_dom[i].year = dominant[j].year
            /\ df_dom[i].party # dominant[j].party
            /\ SeatsIn(dominant[j].state, dominant[j].year, df_dom[i].party)
                 = dominant[j].seats

----------------------------------------------------------------------------

\* Rows per file in the runs about the maps and the callbacks.
MaxRowsMap == 2

\* Results of two constituencies, spelt two ways, for two parties, in UP 2019,
\* MP 2019 or MP 2014.
MapRows ==
  {[BaseRow EXCEPT !.Pc_name = pn, !.party = p, !.state = sy[1],
                   !.year = sy[2]] :
     pn \in {<<"a", "g", "r", "a", " ">>, <<"K", "O", "T", "A">>},
     p \in {SP_full, INC_abbr},
     sy \in {<<UP, Y2019>>, <<MP, Y2019>>, <<MP, Y2014>>}}

InitMap == \E csv \in Seqs(MapRows, 1, MaxRowsMap) : InitWith(csv, BaseGeo)

SpecMap == InitMap /\ [][Next]_vars

\* C3: once the script serves, no callback changes a precomputed table.
C3_CallbacksStateless == [][pc = "serving" => tables' = tables]_vars

\* plot_heatmap has drawn one state's heatmap while turnout_top still holds
\* another state's rows.
C3_Witness ==
  /\ pc = "serving"
  /\ fig.kind = "heatmap"
  /\ \E i \in 1..Len(turnout_top) : turnout_top[i].state # fig.input
  /\ Len(turnout_top) = Len(df_hist)

\* The rows of df_hist of the drawn year whose Pc_name is the region's.
ResultRows(year, region) ==
  {i \in 1..Len(df_hist) :
     /\ FloatEq(df_hist[i].year, year)
     /\ df_hist[i].Pc_name = region.pc_name}

\* C4: in both maps every region of geo is drawn exactly once, with the
\* party (margin bucket) of the result row of the year that bears its
\* normalised name, or 'OTHER' ('gray') when there is none.
C4_OneRowPerRegion ==
  (pc = "serving" /\ fig.kind = "choropleth") =>
    \A g \in 1..Len(geo) :
      LET drawn == {i \in 1..Len(fig.data) :
                      fig.data[i].geometry = geo[g].geometry}
          res == ResultRows(fig.input, geo[g])
      IN  /\ Cardinality(drawn) = 1
          /\ \A i \in drawn :
               IF fig.color = "party"
               THEN IF res = {} THEN fig.data[i].party = OTHER_
                    ELSE \A r \in res : fig.data[i].party = df_hist[r].party
               ELSE IF res = {} THEN fig.data[i].margin_color = "gray"
                    ELSE \A r \in res :
                           fig.data[i].margin_color = df_hist[r].margin_color

\* C9: no callback raises, whatever its dropdown delivers; plot_heatmap
\* returns the placeholder for a state without rows in turnout_top, and the
\* maps colour every region 'OTHER' / 'gray' when no result row is of the
\* selected year.
C9_CallbacksReturnFigure ==
  pc = "serving" =>
    /\ fig.kind # "raised"
    /\ (fig.graph = "turnout-heatmap"
        /\ \A i \in 1..Len(turnout_top) : turnout_top[i].state # fig.input)
       => fig.kind = "placeholder"
    /\ (fig.kind = "choropleth" /\ Len(rows_of_year(fig.input)) = 0)
       => \A i \in 1..Len(fig.data) :
            IF fig.color = "party" THEN fig.data[i].party = OTHER_
            ELSE fig.data[i].margin_color = "gray"

----------------------------------------------------------------------------

\* Rows per file in the runs about the party column.
MaxRowsParty == 2

\* Raw party cells: missing, an abbreviation, full names in several cases
\* and with spaces around, a party outside party_map.
PartyCells ==
  {NA,
   <<"B", "J", "P">>,
   <<" ", "b", "h", "a", "r", "a", "t", "i", "y", "a", " ", "j", "a", "n", "a", "t", "a", " ", "p", "a", "r", "t", "y", " ">>,
   <<"I", "N", "D", "I", "A", "N", " ", "N", "A", "T", "I", "O", "N", "A", "L", " ", "C", "O", "N", "G", "R", "E", "S", "S">>,
   <<"C", "o", "m", "m", "u", "n", "i", "s", "t", " ", "P", "a", "r", "t", "y", " ", "o", "f", " ", "I", "n", "d", "i", "a", " ", "(", "M", "a", "r", "x", "i", "s", "t", ")">>,
   <<"S", "h", "i", "v", " ", "S", "e", "n", "a">>}

PartyRows ==
  {[BaseRow EXCEPT !.party = p, !.state = st, !.year = yr] :
     p \in PartyCells, st \in {UP, NA}, yr \in {Y2019, NA}}

InitParty ==
  \E csv \in Seqs(PartyRows, 1, MaxRowsParty) : InitWith(csv, BaseGeo)

SpecParty == InitParty /\ [][Next]_vars

\* C8: a row whose state, party or year is missing in the file takes no part
\* in the dominance computation, and no party of dominant or
\* state_party_dominance is the text a missing cell was turned into.
C8_MissingExcluded ==
  AfterDominance =>
    /\ \A i \in 1..Len(df_dom) :
         /\ ~isna(raw(df_dom[i]).state)
         /\ ~isna(raw(df_dom[i]).party)
         /\ ~isnan(to_numeric(raw(df_dom[i]).year))
    /\ \A j \in 1..Len(dominant) :
         \E i \in 1..Len(df_dom) :
           /\ df_dom[i].party = dominant[j].party
           /\ ~isna(raw(df_dom[i]).party)
    /\ \A j \in 1..Len(state_party_dominance) :
         \E i \in 1..Len(df_dom) :
           /\ df_dom[i].party = state_party_dominance[j].party
           /\ ~isna(raw(df_dom[i]).party)

lower(s) == [i \in 1..Len(s) |-> ToLower(s[i])]

\* The major parties a raw cell denotes: by full name in any case, or by
\* abbreviation, with spaces around.
Denoted(cell) ==
  {k \in 1..Len(party_map_keys) :
     /\ ~isna(cell)
     /\ \/ lower(strip(cell)) = lower(party_map_keys[k])
        \/ strip(cell) = party_map_values[k]}

\* C10: after cleaning, a row whose raw party denotes a major party holds
\* that party's upper-case abbreviation, which is in major_parties and a key
\* of color_map; and no row's party is a key of party_map.
C10_PartyCanonical ==
  pc \notin {"load", "clean_party"} =>
    \A i \in 1..Len(df_hist) :
      /\ \A k \in Denoted(raw(df_hist[i]).party) :
           /\ df_hist[i].party = party_map_values[k]
           /\ df_hist[i].party \in Range(major_parties)
           /\ df_hist[i].party \in color_map_keys
      /\ df_hist[i].party \notin Range(party_map_keys)

----------------------------------------------------------------------------

\* Rows per file in the runs about the repeat winners.
MaxRowsSun == 6

Ram == <<"R", "a", "m">>
Sita == <<"S", "i", "t", "a">>

\* Wins of one candidate for two parties, and of another candidate.
SunRows ==
  {[BaseRow EXCEPT !.candidate_name = Ram, !.party = SP_full],
   [BaseRow EXCEPT !.candidate_name = Ram, !.party = INC_abbr],
   [BaseRow EXCEPT !.candidate_name = Sita, !.party = SP_full]}

InitSun == \E csv \in Seqs(SunRows, 1, MaxRowsSun) : InitWith(csv, BaseGeo)

SpecSun == InitSun /\ [][Next]_vars

\* The rows of df_hist of a candidate, and of a candidate for a party.
WinsOf(c) ==
  Cardinality({i \in 1..Len(df_hist) : df_hist[i].candidate_name = c})
WinsFor(c, p) ==
  Cardinality({i \in 1..Len(df_hist) :
                 df_hist[i].candidate_name = c /\ df_hist[i].party = p})

\* C6 as claimed: a candidate is in sunburst_data if and only if the rows of
\* df_hist with that candidate_name number more than 5, and the wins shown
\* are that number.
C6_ByCandidate ==
  pc = "serving" =>
    /\ \A i \in 1..Len(df_hist) :
         LET c == df_hist[i].candidate_name
         IN  (\E j \in 1..Len(sunburst_data) :
                sunburst_data[j].candidate_name = c)
             <=> WinsOf(c) > 5
    /\ \A j \in 1..Len(sunburst_data) :
         sunburst_data[j].wins = WinsOf(sunburst_data[j].candidate_name)

\* C6, amended: a (candidate, party) pair with a candidate name is in
\* sunburst_data, once, if and only if the rows of df_hist with that
\* candidate_name and that party number more than 5; the wins shown are that
\* number.
C6_ByCandidateAndParty ==
  pc = "serving" =>
    /\ \A i \in 1..Len(df_hist) :
         LET c == df_hist[i].candidate_name
             p == df_hist[i].party
             shown == {j \in 1..Len(sunburst_data) :
                         /\ sunburst_data[j].candidate_name = c
                         /\ sunburst_data[j].party = p}
         IN  ~isna(c) =>
               Cardinality(shown) = IF WinsFor(c, p) > 5 THEN 1 ELSE 0
    /\ \A j \in 1..Len(sunburst_data) :
         /\ sunburst_data[j].wins > 5
         /\ sunburst_data[j].wins
              = WinsFor(sunburst_data[j].candidate_name,
                        sunburst_data[j].party)

\* Six wins for one party shown, and a candidate with exactly five wins for
\* one party left out, in two files of the run.
C6_Witness ==
  /\ pc = "serving"
  /\ \/ /\ Len(sunburst_data) = 1
        /\ sunburst_data[1].wins = 6
     \/ /\ Len(sunburst_data) = 0
        /\ \E i \in 1..Len(df_hist) :
             WinsFor(df_hist[i].candidate_name, df_hist[i].party) = 5

----------------------------------------------------------------------------

\* Constituencies of the state in the first year of the runs about the
\* heatmap, and rows of a later year after them.
NumPcsHeat == 11
MaxTailHeat == 2

PcName(i) == <<Chars[Ord["A"] + i - 1]>>

\* The first year: every constituency at 80 %, the last one at 10 %.
HeatBlock ==
  [i \in 1..NumPcsHeat |->
     [BaseRow EXCEPT !.Pc_name = PcName(i), !.year = Y2014,
                     !.votes = IF i = NumPcsHeat THEN <<"1", "0", "0">>
                               ELSE <<"8", "0", "0">>]]

\* A later year: the second or the last constituency at 40 % or 95 %.
HeatTailRows ==
  {[BaseRow EXCEPT !.Pc_name = pn, !.votes = v] :
     pn \in {PcName(2), PcName(NumPcsHeat)},
     v \in {<<"4", "0", "0">>, <<"9", "5", "0">>}}

InitHeat ==
  \E tail \in Seqs(HeatTailRows, 0, MaxTailHeat) :
    InitWith(HeatBlock \o tail, BaseGeo)

SpecHeat == InitHeat /\ [][Next]_vars

\* The mean Turnout of a constituency over all rows of the state in df_hist.
MeanInState(st, pn) ==
  LET rows == SelectSeq(df_hist,
                        LAMBDA r : r.state = st /\ r.Pc_name = pn)
  IN  mean([i \in 1..Len(rows) |-> rows[i].Turnout])

\* C7: plot_heatmap shows at most 10 constituencies of the state, those with
\* the highest mean Turnout over all rows of the state in df_hist, in
\* decreasing order of that mean; turnout_top holds at most 10 rows of every
\* (state, year) and leaves out no row with a higher Turnout than one it
\* keeps.
C7_HeatmapTopTurnout ==
  (pc = "serving" /\ fig.kind = "heatmap") =>
    /\ Len(fig.y) <= 10
    /\ \A a \in 1..Len(fig.y) :
         /\ \E i \in 1..Len(df_hist) :
              df_hist[i].state = fig.input /\ df_hist[i].Pc_name = fig.y[a]
         /\ \A i \in 1..Len(df_hist) :
              (df_hist[i].state = fig.input
               /\ df_hist[i].Pc_name \notin Range(fig.y))
              => ~Less(MeanInState(fig.input, fig.y[a]),
                       MeanInState(fig.input, df_hist[i].Pc_name))
         /\ \A b \in (a + 1)..Len(fig.y) :
              ~Less(MeanInState(fig.input, fig.y[a]),
                    MeanInState(fig.input, fig.y[b]))
    /\ \A i \in 1..Len(df_hist) :
         LET kept == {j \in 1..Len(turnout_top) :
                        /\ turnout_top[j].state = df_hist[i].state
                        /\ turnout_top[j].year = df_hist[i].year}
         IN  /\ Cardinality(kept) <= 10
             /\ (\A j \in kept : turnout_top[j].idx # df_hist[i].idx)
                => \A j \in kept :
                     ~Less(turnout_top[j].Turnout, df_hist[i].Turnout)

=============================================================================
